---- MODULE Spec2Model ----
(***************************************************************************)
(* Model of the magnifier text extractor: the Streamlit script app.py      *)
(* (upload section, preview section, the page loop of "Process PDF") and   *)
(* the VisionProcessor adapters of vision_model.py.                        *)
(*                                                                         *)
(* Python values are tagged records, so that values of different shapes    *)
(* (bool, dict, None, MagnifierPage) can be compared:                      *)
(*   [bool |-> b]  [none |-> TRUE]  [dict |-> f]  [magnifier_items |-> s]  *)
(*   [raise |-> msg] stands for a call that raised Exception(msg).         *)
(* Python strings whose content is inspected are sequences of characters.  *)
(***************************************************************************)
EXTENDS Integers, Sequences, FiniteSets, TLC

\* ------------------------------------------------------------------ bounds
\* Largest page count of a modelled document.
MaxPages == 3

\* ------------------------------------------------------- program constants
\* app.py:31, the upload size limit in bytes (50 * 1024 * 1024).
SizeLimit == 52428800

\* ------------------------------------------------------------ Python values
PyBool(b) == [bool |-> b]
PyNone == [none |-> TRUE]
PyDict(f) == [dict |-> f]
Raise == [raise |-> "API Error"]

IsBool(v) == "bool" \in DOMAIN v
IsDict(v) == "dict" \in DOMAIN v
IsRaise(v) == "raise" \in DOMAIN v

\* dict.get(key, default)
Get(d, key, default) == IF key \in DOMAIN d THEN d[key] ELSE default

\* Python truthiness of the modelled values: bool(v).
Truthy(v) ==
  IF IsBool(v) THEN v.bool
  ELSE IF "none" \in DOMAIN v THEN FALSE
  ELSE IF IsDict(v) THEN DOMAIN v.dict # {}
  ELSE TRUE

\* hasattr(v, 'magnifier_items')
HasItems(v) == "magnifier_items" \in DOMAIN v

\* ------------------------------------------------------------------ strings
Whitespace == {" ", "\n", "\t"}

LowerChar(c) ==
  CASE c = "Y" -> "y" [] c = "E" -> "e" [] c = "S" -> "s"
    [] c = "N" -> "n" [] c = "O" -> "o" [] c = "P" -> "p"
    [] c = "D" -> "d" [] c = "F" -> "f" [] c = "A" -> "a"
    [] c = "B" -> "b" [] OTHER -> c

\* str.lower()
Lower(s) == [k \in 1..Len(s) |-> LowerChar(s[k])]

RECURSIVE LStrip(_)
LStrip(s) == IF s # <<>> /\ Head(s) \in Whitespace THEN LStrip(Tail(s)) ELSE s

RECURSIVE RStrip(_)
RStrip(s) ==
  IF s # <<>> /\ s[Len(s)] \in Whitespace
  THEN RStrip(SubSeq(s, 1, Len(s) - 1)) ELSE s

\* str.strip()
Strip(s) == RStrip(LStrip(s))

\* str.endswith(suffix)
EndsWith(s, suffix) ==
  /\ Len(s) >= Len(suffix)
  /\ SubSeq(s, Len(s) - Len(suffix) + 1, Len(s)) = suffix

Yes == <<"y", "e", "s">>
DotPdf == <<".", "p", "d", "f">>

\* Index of the last "." of s, 0 when there is none.
LastDot(s) ==
  LET dots == {k \in 1..Len(s) : s[k] = "."}
  IN IF dots = {} THEN 0 ELSE CHOOSE k \in dots : \A j \in dots : j <= k

\* Path(name).stem : the name without its last suffix.
Stem(name) ==
  IF LastDot(name) <= 1 THEN name ELSE SubSeq(name, 1, LastDot(name) - 1)

\* ---------------------------------------------------------- vision_model.py
\* Answers the hosted classifier model may give (response.text).
Responses ==
  { <<"y", "e", "s">>, <<" ", "Y", "E", "s", "\n">>,
    <<"n", "o">>, <<"y", "e", "s", ".">>, <<"y", " ", "e", "s">> }

ModelText(s) == [text |-> s]

\* Outcomes of the hosted classifier call: an answer, or an exception.
ClassifierOutcomes == {Raise} \cup {ModelText(s) : s \in Responses}

FailureDict == PyDict([success |-> PyBool(FALSE), error |-> [str |-> "API Error"]])

\* VisionProcessor.detect_magnifier_gemini
detect_magnifier_gemini(o) ==
  IF IsRaise(o) THEN FailureDict
  ELSE PyBool(Lower(Strip(o.text)) = Yes)

\* VisionProcessor.detect_magnifier_qwen
detect_magnifier_qwen(o) ==
  IF IsRaise(o) THEN PyBool(FALSE)
  ELSE PyBool(Lower(Strip(o.text)) = Yes)

\* MagnifierItem values the hosted extractor model may return.
PyStr(s) == [str |-> s]
PyInt(n) == [int |-> n]
ItemA == [cycle_id |-> 1, page_number |-> PyStr("i"), text_after_symbol |-> "see note"]
ItemB == [cycle_id |-> 2, page_number |-> PyNone, text_after_symbol |-> ""]
ItemC == [cycle_id |-> 1, page_number |-> PyInt(7), text_after_symbol |-> "cf."]

\* MagnifierPage.magnifier_items lists the model may return.
ItemLists == { <<>>, <<ItemA>>, <<ItemB, ItemA>>, <<ItemA, ItemC>> }

MagnifierPage(items) == [magnifier_items |-> items]

Sentinel == PyDict([page_number |-> PyNone, text |-> PyNone])

\* Outcomes of extract_text's environment: the image cannot be opened, the
\* parse call raises, the parsed message is None (refusal), or a page.
Unreadable == [unreadable |-> TRUE]
ExtractorOutcomes ==
  {Unreadable, Raise, PyNone} \cup {MagnifierPage(l) : l \in ItemLists}

\* VisionProcessor.extract_text
extract_text(o) ==
  IF "unreadable" \in DOMAIN o THEN Sentinel
  ELSE IF IsRaise(o) THEN PyNone
  ELSE o

\* ------------------------------------------------------------------- app.py
\* Uploaded files: name, size in bytes, and the document they contain.
FileA1 == [name |-> <<"a", ".", "p", "d", "f">>, size |-> 1000, doc |-> "D1"]
FileA2 == [name |-> <<"a", ".", "p", "d", "f">>, size |-> 2000, doc |-> "D2"]
FileB == [name |-> <<"b", ".", "P", "D", "F">>, size |-> SizeLimit, doc |-> "D3"]
FileTxt == [name |-> <<"a", ".", "t", "x", "t">>, size |-> 1000, doc |-> "D1"]
FileBig == [name |-> <<"b", ".", "p", "d", "f">>, size |-> SizeLimit + 1, doc |-> "D3"]
FileBad == [name |-> <<"b", ".", "p", "d", "f">>, size |-> 1000, doc |-> "Corrupt"]
Files == {FileA1, FileA2, FileB, FileTxt, FileBig, FileBad}

\* No file at a path of the image cache; no temporary PDF.
NoFile == "NoFile"

\* validate_pdf
validate_pdf(file) ==
  IF file = PyNone THEN FALSE
  ELSE IF ~EndsWith(Lower(file.name), DotPdf) THEN FALSE
  ELSE IF file.size > SizeLimit THEN FALSE
  ELSE TRUE

\* len(PdfReader(pdf_path).pages); PdfReader raises on the corrupt document.
PageCount(doc) ==
  CASE doc = "D1" -> MaxPages
    [] doc = "D2" -> MaxPages - 1
    [] doc = "D3" -> 1
    [] OTHER -> 0

Readable(doc) == doc # "Corrupt"

\* image_dir / f"page_{n}.png" with image_dir = data/<filename>/images
ImagePath(filename, n) == <<"data", filename, "images", n>>

Stems == {Stem(f.name) : f \in {g \in Files : validate_pdf(g)}}
Paths == {ImagePath(s, n) : s \in Stems, n \in 1..MaxPages}

\* detect_magnifier without the isinstance(detect_result, dict) branch.
detect_magnifier_no_dict(r) ==
  IF IsRaise(r) THEN FALSE ELSE Truthy(r)

\* detect_magnifier(page_path, vision_processor), r the result (or the
\* exception) of vision_processor.detect_magnifier_gemini(page_path)
detect_magnifier(r) ==
  IF IsRaise(r) THEN FALSE
  ELSE IF IsDict(r)
       THEN Truthy(Get(r.dict, "success", PyBool(FALSE)))
            /\ Truthy(Get(r.dict, "found", PyBool(FALSE)))
       ELSE Truthy(r)

\* Record with the page index written into cycle_id.
Record_cycle_from_page(page_id, item) ==
  [page_id |-> page_id, cycle_id |-> page_id,
   page_number |-> item.page_number, text |-> item.text_after_symbol,
   has_magnifier |-> TRUE]

\* Record with the 0-based loop index as page_id.
Record_zero_based(page_id, item) ==
  [page_id |-> page_id - 1, cycle_id |-> item.cycle_id,
   page_number |-> item.page_number, text |-> item.text_after_symbol,
   has_magnifier |-> TRUE]

\* The record extract_magnifier_text builds for one item.
Record(page_id, item) ==
  [page_id |-> page_id, cycle_id |-> item.cycle_id,
   page_number |-> item.page_number, text |-> item.text_after_symbol,
   has_magnifier |-> TRUE]

\* extract_magnifier_text returning a placeholder record when nothing usable
\* came back, in place of the empty list.
extract_magnifier_text_placeholder(page_id, x) ==
  IF ~IsRaise(x) /\ Truthy(x) /\ HasItems(x)
  THEN [k \in 1..Len(x.magnifier_items) |-> Record(page_id, x.magnifier_items[k])]
  ELSE << [page_id |-> page_id, cycle_id |-> 0, page_number |-> PyNone,
           text |-> "", has_magnifier |-> FALSE] >>

\* extract_magnifier_text(page_path, page_id, vision_processor), x the result
\* (or the exception) of vision_processor.extract_text(page_path)
extract_magnifier_text(page_id, x) ==
  IF IsRaise(x) THEN <<>>
  ELSE IF Truthy(x) /\ HasItems(x)
       THEN [k \in 1..Len(x.magnifier_items) |-> Record(page_id, x.magnifier_items[k])]
       ELSE <<>>

\* process_page(page_path, page_id, vision_processor) as a trace: the
\* judgment, whether extract_text was called, and the returned list.
process_page(page_id, r, x) ==
  LET has_magnifier == detect_magnifier(r)
  IN [fn |-> "process_page", page_id |-> page_id, detect_result |-> r,
      extracted |-> x, has_magnifier |-> has_magnifier,
      extract_called |-> has_magnifier,
      returned |-> IF has_magnifier THEN extract_magnifier_text(page_id, x) ELSE <<>>]

\* Results a substituted vision_processor may give process_page.
DetectResults ==
  { Raise, PyNone, PyBool(TRUE), PyBool(FALSE), FailureDict,
    PyDict([success |-> PyBool(TRUE), found |-> PyBool(TRUE)]),
    PyDict([success |-> PyBool(TRUE), found |-> PyBool(FALSE)]),
    PyDict([found |-> PyBool(TRUE)]) }
ExtractResults ==
  {Raise, PyNone, Sentinel} \cup {MagnifierPage(l) : l \in ItemLists}

\* Outcomes of convert_from_path + save: an image is saved, no image comes
\* back (images == []), or the renderer raises.
RenderOutcomes == {"ok", "empty", "raise"}

NoCall == [fn |-> "none"]
NoPage == [page_id |-> 0]

VARIABLES
  uploaded,      \* st.file_uploader's current file, PyNone before any upload
  cache,         \* the files under data/: path -> document rendered, or NoFile
  rendered,      \* convert_from_path calls of the last step: {[path, doc]}
  pc,            \* position of the script: idle, loop, body, summary, done
  filename,      \* main: Path(uploaded_file.name).stem
  pdf_path,      \* main: the document saved in the temporary file
  total_pages,   \* main
  start_page,    \* main
  end_page,      \* main
  i,             \* main: the loop variable (0-based)
  results,       \* main: the accumulated records
  progress,      \* status_text / progress_bar updates of this run
  found,         \* the count shown by st.success, -1 before the summary
  last,          \* trace of the last loop iteration
  call           \* trace of the last direct call of a function (no session)

vars == <<uploaded, cache, rendered, pc, filename, pdf_path, total_pages,
          start_page, end_page, i, results, progress, found, last, call>>

locals == <<filename, pdf_path, total_pages, start_page, end_page, i>>

Init ==
  /\ uploaded = PyNone
  /\ cache = [p \in Paths |-> NoFile]
  /\ rendered = {}
  /\ pc = "idle"
  /\ filename = <<>>
  /\ pdf_path = NoFile
  /\ total_pages = 0
  /\ start_page = 0
  /\ end_page = 0
  /\ i = 0
  /\ results = <<>>
  /\ progress = <<>>
  /\ found = -1
  /\ last = NoPage
  /\ call = NoCall

\* The script ends without a run: nothing of a run is left on the screen.
NoRun ==
  /\ pc' = "idle"
  /\ filename' = <<>>
  /\ pdf_path' = NoFile
  /\ total_pages' = 0
  /\ start_page' = 0
  /\ end_page' = 0
  /\ i' = 0

\* The conversion without the "if not image_path.exists()" test.
EnsureImage_always(doc, path, ro) ==
  IF ro = "ok" THEN [cache EXCEPT ![path] = doc] ELSE cache

\* "Convert page to image if needed": the cache after the attempt, for the
\* document doc, the path and the renderer's outcome ro.
EnsureImage(doc, path, ro) ==
  IF cache[path] = NoFile /\ ro = "ok"
  THEN [cache EXCEPT ![path] = doc]
  ELSE cache

\* The convert_from_path calls of that attempt.
RenderCalls(doc, path) ==
  IF cache[path] = NoFile THEN {[path |-> path, doc |-> doc]} ELSE {}

\* range(start_page, end_page): the 1-based page used as 0-based index.
FirstIndex_one_based(first_page) == first_page

\* range(start_page - 1, end_page): the first index of the loop.
FirstIndex(first_page) == first_page - 1

\* The temporary files of save_uploaded_file that a script run without a
\* click leaves behind are not modelled: nothing reads them again.
\* One execution of main() up to the "Process PDF" button: the upload
\* section, the preview of page n, and the start of the run over [s, e] when
\* the button was clicked.
Script(f, n, ro, button, s, e) ==
  /\ pc \in {"idle", "done"}
  /\ uploaded' = f
  /\ results' = <<>>
  /\ progress' = <<>>
  /\ found' = -1
  /\ last' = NoPage
  /\ call' = NoCall
  /\ IF ~validate_pdf(f) \/ ~Readable(f.doc)
     THEN /\ NoRun
          /\ n = 1
          /\ ro = "ok"
          /\ UNCHANGED cache
          /\ rendered' = {}
     ELSE LET path == ImagePath(Stem(f.name), n)
          IN /\ n \in 1..PageCount(f.doc)
             /\ cache[path] # NoFile => ro = "ok"
             /\ cache' = EnsureImage(f.doc, path, ro)
             /\ rendered' = RenderCalls(f.doc, path)
             /\ IF button
                THEN /\ s \in 1..PageCount(f.doc)
                     /\ e \in s..PageCount(f.doc)
                     /\ pc' = "loop"
                     /\ filename' = Stem(f.name)
                     /\ pdf_path' = f.doc
                     /\ total_pages' = PageCount(f.doc)
                     /\ start_page' = s
                     /\ end_page' = e
                     /\ i' = FirstIndex(s)
                ELSE NoRun

\* The user picks a file in the uploader.
Upload ==
  \E f \in Files \ {uploaded}, n \in 1..MaxPages, ro \in RenderOutcomes :
    Script(f, n, ro, FALSE, 1, 1)

\* The user changes the preview page number.
Preview ==
  /\ uploaded # PyNone
  /\ \E n \in 1..MaxPages, ro \in RenderOutcomes :
       Script(uploaded, n, ro, FALSE, 1, 1)

\* The user clicks "Process PDF" with the range [s, e].
Process ==
  /\ validate_pdf(uploaded)
  /\ Readable(uploaded.doc)
  /\ \E n \in 1..MaxPages, ro \in RenderOutcomes, s \in 1..MaxPages, e \in 1..MaxPages :
       Script(uploaded, n, ro, TRUE, s, e)

\* The number of pages before the current one as the pages-so-far value.
PagesSoFar_zero_based(k, first_page) == k - first_page + 1

\* The absolute page number used as the pages-so-far value.
PagesSoFar_absolute(k, first_page) == k + 1

\* The pages-so-far value of the status text and of the progress fraction.
PagesSoFar(k, first_page) == k - first_page + 2

\* Top of a loop iteration: the status text and the progress bar.
LoopHead ==
  /\ pc = "loop"
  /\ LET total_selected_pages == end_page - start_page + 1
     IN progress' = Append(progress,
          [page |-> i + 1, done |-> PagesSoFar(i, start_page),
           total |-> total_selected_pages])
  /\ pc' = "body"
  /\ rendered' = {}
  /\ UNCHANGED <<uploaded, cache, locals, results, found, last, call>>

NotCalled == [not_called |-> TRUE]

\* results = page_results + results
Extend_prepend(rs, page_results) == page_results \o rs

\* results.extend(page_results)
Extend(rs, page_results) == rs \o page_results

\* main_page with the extraction outside the "if has_magnifier".
main_page_unconditional(page_id, r, x) ==
  LET page_results == extract_magnifier_text(page_id, x)
  IN [has_magnifier |-> detect_magnifier(r),
      extract_called |-> TRUE,
      extracted |-> x,
      page_results |-> page_results,
      appended |-> IF page_results # <<>> THEN page_results ELSE <<>>]

\* Lines 279-301 of main for page page_id: the judgment, the conditional
\* extraction and the records appended.  r is the result of
\* detect_magnifier_gemini, x the result of extract_text.
main_page(page_id, r, x) ==
  LET has_magnifier == detect_magnifier(r)
      page_results == IF has_magnifier THEN extract_magnifier_text(page_id, x) ELSE <<>>
  IN [has_magnifier |-> has_magnifier,
      extract_called |-> has_magnifier,
      extracted |-> IF has_magnifier THEN x ELSE NotCalled,
      page_results |-> page_results,
      appended |-> IF page_results # <<>> THEN page_results ELSE <<>>]

\* The except clause with "break" in place of "continue".
Advance_break(k, last_page, raised) ==
  IF raised THEN "summary"
  ELSE IF k + 1 < last_page THEN "loop" ELSE "summary"

\* Where the loop goes after the iteration for index k: the except clause
\* continues, so an exception (raised) changes nothing.
Advance(k, last_page, raised) ==
  IF k + 1 < last_page THEN "loop" ELSE "summary"

\* The body of the iteration for page i + 1.  ro: outcome of the renderer;
\* show: st.image raises on a missing file; o: outcome of the classifier
\* model; xo: outcome of the extractor model.
\* What st.image does with a path that has no file belongs to the UI
\* library: both outcomes are modelled.  When it does not raise, the
\* adapters' open(image_path) fails instead.  The other display calls
\* (st.write, st.dataframe) are taken not to raise, and the script is not
\* interrupted by a new interaction while the loop runs.
Iteration(ro, show, o, xo) ==
  LET page_id == i + 1
      image_path == ImagePath(filename, page_id)
      render_raised == cache[image_path] = NoFile /\ ro = "raise"
      cache1 == EnsureImage(pdf_path, image_path, ro)
      exists == cache1[image_path] # NoFile
      display_raised == ~render_raised /\ ~exists /\ show
      raised == render_raised \/ display_raised
      classifier == IF exists THEN o ELSE Raise
      r == detect_magnifier_gemini(classifier)
      x == extract_text(IF exists THEN xo ELSE Unreadable)
      page == main_page(page_id, r, x)
  IN /\ cache' = cache1
     /\ rendered' = RenderCalls(pdf_path, image_path)
     /\ pc' = Advance(i, end_page, raised)
     /\ i' = IF Advance(i, end_page, raised) = "loop" THEN i + 1 ELSE i
     /\ IF raised
        THEN /\ last' = [page_id |-> page_id, raised |-> TRUE, image |-> exists,
                         classifier |-> NotCalled, detect_result |-> NotCalled,
                         has_magnifier |-> FALSE, extract_called |-> FALSE,
                         extracted |-> NotCalled, page_results |-> <<>>]
             /\ UNCHANGED results
        ELSE /\ last' = [page_id |-> page_id, raised |-> FALSE, image |-> exists,
                         classifier |-> classifier, detect_result |-> r,
                         has_magnifier |-> page.has_magnifier,
                         extract_called |-> page.extract_called,
                         extracted |-> page.extracted,
                         page_results |-> page.page_results]
             /\ results' = Extend(results, page.appended)

\* One iteration of "for i in range(start_page - 1, end_page)".  An input
\* the iteration does not consult is fixed, so that each case is taken once.
PageBody ==
  /\ pc = "body"
  /\ LET image_path == ImagePath(filename, i + 1)
         cached == cache[image_path] # NoFile
     IN \E ro \in IF cached THEN {"ok"} ELSE RenderOutcomes :
          LET exists == cached \/ ro = "ok"
          IN \E show \in IF exists \/ ro = "raise" THEN {FALSE} ELSE BOOLEAN :
               \E o \in IF exists THEN ClassifierOutcomes ELSE {Raise} :
                 \E xo \in IF exists /\ detect_magnifier(detect_magnifier_gemini(o))
                           THEN ExtractorOutcomes ELSE {Unreadable} :
                   Iteration(ro, show, o, xo)
  /\ UNCHANGED <<uploaded, filename, pdf_path, total_pages, start_page,
                 end_page, progress, found, call>>

\* After the loop: st.success with the count, the results table, the removal
\* of the temporary file; the script ends and its locals are gone.
Finish ==
  /\ pc = "summary"
  /\ found' = Len(results)
  /\ pc' = "done"
  /\ filename' = <<>>
  /\ pdf_path' = NoFile
  /\ total_pages' = 0
  /\ start_page' = 0
  /\ end_page' = 0
  /\ i' = 0
  /\ results' = <<>>
  /\ progress' = <<>>
  /\ last' = NoPage
  /\ rendered' = {}
  /\ UNCHANGED <<uploaded, cache, call>>

\* process_page called directly with a substituted vision_processor.
CallProcessPage ==
  /\ uploaded = PyNone
  /\ \E page_id \in 1..MaxPages, r \in DetectResults, x \in ExtractResults :
       call' = process_page(page_id, r, x)
  /\ UNCHANGED <<uploaded, cache, rendered, pc, locals, results, progress, found, last>>

\* A classifier method of VisionProcessor called directly.
CallDetect ==
  /\ uploaded = PyNone
  /\ \E o \in ClassifierOutcomes :
       \/ call' = [fn |-> "detect_magnifier_gemini", outcome |-> o,
                   returned |-> detect_magnifier_gemini(o)]
       \/ call' = [fn |-> "detect_magnifier_qwen", outcome |-> o,
                   returned |-> detect_magnifier_qwen(o)]
  /\ UNCHANGED <<uploaded, cache, rendered, pc, locals, results, progress, found, last>>

\* VisionProcessor.extract_text called directly.
CallExtract ==
  /\ uploaded = PyNone
  /\ \E o \in ExtractorOutcomes :
       call' = [fn |-> "extract_text", outcome |-> o, returned |-> extract_text(o)]
  /\ UNCHANGED <<uploaded, cache, rendered, pc, locals, results, progress, found, last>>

Next ==
  \/ Upload
  \/ Preview
  \/ Process
  \/ LoopHead
  \/ PageBody
  \/ Finish
  \/ CallProcessPage
  \/ CallDetect
  \/ CallExtract

Spec == Init /\ [][Next]_vars

\* The script runs to its end once started: the loop is sequential code.
FairSpec == Spec /\ WF_vars(LoopHead) /\ WF_vars(PageBody) /\ WF_vars(Finish)

TypeOK ==
  /\ uploaded \in Files \cup {PyNone}
  /\ pc \in {"idle", "loop", "body", "summary", "done"}
  /\ \A p \in Paths : cache[p] \in {NoFile, "D1", "D2", "D3"}
  /\ i \in 0..MaxPages

\* ------------------------------------------------------------ properties
\* The records of page p in a record sequence, in their order.
PageRecords(rs, p) == SelectSeq(rs, LAMBDA rec : rec.page_id = p)

IsPrefix(s, t) == Len(s) <= Len(t) /\ SubSeq(t, 1, Len(s)) = s

\* The run goes on after the page of the last iteration: the next page is
\* the one being processed, or the page was the last and the loop is over.
RunProceeds ==
  \/ pc \in {"loop", "body"} /\ i = last.page_id
  \/ pc = "summary" /\ last.page_id = end_page

\* C1: a page whose judgment is negative yields no records and the
\* extractor is not called for it, in process_page and in the loop of main.
C1_NegativeSkipsExtractor ==
  /\ (call.fn = "process_page" /\ ~call.has_magnifier)
       => (~call.extract_called /\ call.returned = <<>>)
  /\ (last.page_id # 0 /\ ~last.raised /\ ~last.has_magnifier)
       => /\ ~last.extract_called
          /\ last.page_results = <<>>
          /\ PageRecords(results, last.page_id) = <<>>

C1_Witness ==
  /\ last.page_id # 0 /\ ~last.raised /\ last.image
  /\ last.detect_result = PyBool(FALSE)
  /\ results # <<>>

\* The answers of Responses that are 'yes' once trimmed and lower-cased.
AffirmativeAnswers ==
  { <<"y", "e", "s">>, <<" ", "Y", "E", "s", "\n">> }

OneToOne(page_id, items, recs) ==
  /\ Len(recs) = Len(items)
  /\ \A k \in 1..Len(items) :
       /\ recs[k].page_id = page_id
       /\ recs[k].has_magnifier = TRUE
       /\ recs[k].cycle_id = items[k].cycle_id
       /\ recs[k].page_number = items[k].page_number
       /\ recs[k].text = items[k].text_after_symbol

\* C3: when the extractor returns items, the records are the items in
\* order, with the page index passed in, the flag set and the fields copied.
C3_RecordsMatchItems ==
  /\ (call.fn = "process_page" /\ call.has_magnifier /\ HasItems(call.extracted))
       => OneToOne(call.page_id, call.extracted.magnifier_items, call.returned)
  /\ (last.page_id # 0 /\ last.has_magnifier /\ HasItems(last.extracted))
       => /\ OneToOne(last.page_id, last.extracted.magnifier_items, last.page_results)
          /\ PageRecords(results, last.page_id) = last.page_results
          /\ \E k \in 1..Len(progress) : progress[k].page = last.page_id

C3_Witness ==
  /\ last.page_id = 2 /\ last.has_magnifier
  /\ last.extracted = MagnifierPage(<<ItemB, ItemA>>)
  /\ Len(results) > 2

\* The accumulated records are in ascending page order.
PageOrdered(rs) ==
  \A j, k \in 1..Len(rs) : j < k => rs[j].page_id <= rs[k].page_id

\* The records of the last page are in the extractor's order.
ExtractionOrdered ==
  (last.page_id # 0 /\ last.has_magnifier /\ HasItems(last.extracted))
    => LET recs == PageRecords(results, last.page_id)
           items == last.extracted.magnifier_items
       IN /\ Len(recs) = Len(items)
          /\ \A k \in 1..Len(items) :
               /\ recs[k].cycle_id = items[k].cycle_id
               /\ recs[k].text = items[k].text_after_symbol

\* C4: during and at the end of a run the records are in ascending page
\* order and, within a page, in extraction order; the sequence only grows
\* by appending.
C4_OrderedAppendOnly ==
  /\ [](PageOrdered(results) /\ ExtractionOrdered)
  /\ [][(pc \in {"loop", "body"}) => IsPrefix(results, results')]_vars

C4_Witness ==
  /\ pc = "summary"
  /\ Len(results) >= 4
  /\ results[1].page_id < results[Len(results)].page_id
  /\ \E p \in 1..MaxPages : start_page < p /\ p < end_page
                            /\ PageRecords(results, p) = <<>>

\* The pages visited so far are start_page, start_page + 1, ... in order,
\* each one once, and the body of each visited page has run.
RangeVisited ==
  /\ \A k \in 1..Len(progress) : progress[k].page = start_page + k - 1
  /\ pc = "loop" => /\ Len(progress) = i - start_page + 1
                    /\ Len(progress) > 0 => last.page_id = i
  /\ pc = "body" => /\ Len(progress) = i - start_page + 2
                    /\ Len(progress) > 1 => last.page_id = i
  /\ pc = "summary" => /\ Len(progress) = end_page - start_page + 1
                       /\ last.page_id = end_page

\* C5: a run over [start, end] visits every page of the range once, in
\* ascending order, end - start + 1 pages in all, whatever the adapters do,
\* and then ends with its summary.
C5_AllPagesAttempted ==
  /\ []RangeVisited
  /\ [][(pc = "summary") => (pc' = "done" /\ found' = Len(results))]_vars
  /\ (pc = "loop") ~> (pc = "done")

C5_Witness ==
  /\ pc = "summary"
  /\ start_page = 2
  /\ end_page = MaxPages
  /\ Len(progress) = MaxPages - 1
  /\ last.raised

\* C6: a page whose rasterization fails (no image file at its path after the
\* attempt) contributes no records, nothing of it is appended, and the run
\* goes on: each later page whose image exists is classified.
C6_RasterFailureIsolated ==
  /\ []((last.page_id # 0 /\ ~last.image)
          => /\ ~last.has_magnifier
             /\ ~last.extract_called
             /\ last.page_results = <<>>
             /\ PageRecords(results, last.page_id) = <<>>
             /\ RunProceeds)
  /\ [][(pc = "body")
          => /\ last'.page_id = i + 1
             /\ cache'[ImagePath(filename, i + 1)] # NoFile
                  => (~last'.raised /\ last'.detect_result # NotCalled)]_vars

C6_Witness ==
  /\ last.page_id # 0
  /\ last.page_results # <<>>
  /\ \E p \in start_page..(last.page_id - 1) :
       cache[ImagePath(filename, p)] = NoFile

\* C7: a positive page whose extractor returns an empty list, None, the
\* failure sentinel, or raises, yields no records and no error; the run
\* goes on.
C7_EmptyExtractionIsEmpty ==
  /\ (call.fn = "process_page" /\ call.has_magnifier
        /\ call.extracted \in {Raise, PyNone, Sentinel, MagnifierPage(<<>>)})
       => call.returned = <<>>
  /\ (last.page_id # 0 /\ last.has_magnifier
        /\ last.extracted \in {PyNone, Sentinel, MagnifierPage(<<>>)})
       => /\ ~last.raised
          /\ last.page_results = <<>>
          /\ PageRecords(results, last.page_id) = <<>>
          /\ RunProceeds

C7_Witness ==
  /\ last.page_id # 0 /\ last.has_magnifier
  /\ last.extracted = Sentinel
  /\ results # <<>>
  /\ pc = "loop"

\* C8: the image of a page of a document is at the path made of the
\* document's name and the page number; the renderer is called only when no
\* file is at that path, and a cached file is never rewritten or removed.
C8_CacheRenderOnce ==
  [][/\ \A c \in rendered' :
          /\ cache[c.path] = NoFile
          /\ c.doc = uploaded'.doc
          /\ \E n \in 1..MaxPages : c.path = ImagePath(Stem(uploaded'.name), n)
     /\ \A p \in Paths : cache[p] # NoFile => cache'[p] = cache[p]]_vars

C8_Witness ==
  /\ last.page_id # 0 /\ last.image /\ ~last.raised
  /\ rendered = {}
  /\ pc = "loop"

\* C9: one progress update per page of the range, failed pages included;
\* the pages-so-far value goes 1, 2, ... up to end - start + 1 and never
\* exceeds the total.
C9_ProgressOncePerPage ==
  /\ \A k \in 1..Len(progress) :
       /\ progress[k].done = k
       /\ progress[k].total = end_page - start_page + 1
       /\ progress[k].done <= progress[k].total
  /\ pc = "loop" => Len(progress) = i - FirstIndex(start_page)
  /\ pc = "body" => Len(progress) = i - FirstIndex(start_page) + 1
  /\ pc = "summary" => Len(progress) = end_page - start_page + 1

C9_Witness ==
  /\ pc = "summary"
  /\ start_page = 2
  /\ Len(progress) = 2
  /\ progress[2].done = 2
  /\ PageRecords(results, 2) = <<>>

\* C10: a classifier method of VisionProcessor whose model call raises
\* returns the boolean False.
C10_ClassifierErrorReturnsFalse ==
  (call.fn \in {"detect_magnifier_gemini", "detect_magnifier_qwen"}
     /\ IsRaise(call.outcome))
    => call.returned = PyBool(FALSE)

\* C11: extract_text returns the sentinel {"page_number": None, "text": None}
\* whenever the model call raises or its response cannot be parsed (the
\* parse call raises).
C11_ExtractErrorReturnsSentinel ==
  (call.fn = "extract_text" /\ IsRaise(call.outcome))
    => call.returned = Sentinel

\* Two records of rs have the same (page_id, cycle_id).
HasDuplicatePair(rs) ==
  \E j, k \in 1..Len(rs) :
    j < k /\ rs[j].page_id = rs[k].page_id /\ rs[j].cycle_id = rs[k].cycle_id

\* Two items of the list have the same cycle_id.
DuplicateCycle(items) ==
  \E j, k \in 1..Len(items) : j < k /\ items[j].cycle_id = items[k].cycle_id

\* C12 as stated: no two accumulated records have the same
\* (page_id, cycle_id), whatever the extractor returns.
C12_CycleIdUniquePerPage == ~HasDuplicatePair(results)

\* C12 amended: cycle_id is copied from the item, so the records of a page
\* have distinct (page_id, cycle_id) when its items have distinct cycle_id,
\* and a page adds a duplicate pair only when the extractor returned two
\* items with the same cycle_id for it.
C12_DuplicatesOnlyFromExtractor ==
  /\ []((last.page_id # 0 /\ last.has_magnifier /\ HasItems(last.extracted)
           /\ ~DuplicateCycle(last.extracted.magnifier_items))
          => ~HasDuplicatePair(PageRecords(results, last.page_id)))
  /\ [][(pc = "body" /\ HasDuplicatePair(results'))
          => \/ HasDuplicatePair(results)
             \/ /\ HasItems(last'.extracted)
                /\ DuplicateCycle(last'.extracted.magnifier_items)]_vars

C12_Witness ==
  /\ Len(results) >= 4
  /\ ~HasDuplicatePair(results)
  /\ last.extracted = MagnifierPage(<<ItemB, ItemA>>)
  /\ \E j, k \in 1..Len(results) :
       /\ results[j].page_id < results[k].page_id
       /\ results[j].cycle_id = results[k].cycle_id

\* The number of pages of the run whose iteration body has run.
PagesCompleted ==
  IF last.page_id = 0 THEN 0 ELSE last.page_id - start_page + 1

\* C13 as stated: the update for a page comes after the page is processed,
\* so a reported pages-so-far value of k means k pages are completed.
C13_ProgressAfterProcessing ==
  Len(progress) > 0 => progress[Len(progress)].done <= PagesCompleted

\* C13 amended: the update for a page comes before the page is processed.
\* While the k-th page is in its body the reported value is already k with
\* k - 1 pages completed; the update step itself processes nothing.
C13_ProgressBeforeProcessing ==
  /\ [](Len(progress) > 0
          => LET k == progress[Len(progress)].done
             IN /\ pc = "body" => PagesCompleted = k - 1
                /\ pc \in {"loop", "summary"} => PagesCompleted = k)
  /\ [][(Len(progress') > Len(progress))
          => /\ results' = results
             /\ last' = last
             /\ last.page_id # progress'[Len(progress')].page]_vars

C13_Witness ==
  /\ pc = "body"
  /\ Len(progress) = MaxPages
  /\ progress[Len(progress)].done = progress[Len(progress)].total
  /\ last.page_id = end_page - 1
  /\ PageRecords(results, end_page) = <<>>
  /\ results # <<>>

\* C14: the image classified and extracted for a page of the uploaded
\* document is a rendering of that page of that document, never a cached
\* image of another document (one with the same base file name included).
C14_ImageFromSameDocument ==
  (pc \in {"loop", "body", "summary"} /\ last.page_id # 0
     /\ last.image /\ ~last.raised)
    => cache[ImagePath(filename, last.page_id)] = pdf_path

====
